---- MODULE Spec2Model ----
(***************************************************************************)
(* The board engine of chessConsole (src/unnamed/part_000, the variant    *)
(* with ray casting, capture-only pawn diagonals and castling): the 64    *)
(* cell grid, the cursor (_highlightedCell), the selection                 *)
(* (_selectedCell), the destination list (_highlightedMoves) and the five *)
(* key handlers moveUp / moveDown / moveLeft / moveRight /                 *)
(* selectHighlightedCell.                                                  *)
(*                                                                         *)
(* A Piece object is modelled by its identity 1..32 (the order in which   *)
(* arrangeBoard constructs the pieces); its immutable name and colour are *)
(* functions of the identity and its one mutable field hasMovedOnce is a  *)
(* function variable.  A board cell holds 0 or a piece identity.  A read  *)
(* of the JavaScript array outside the slots that exist yields            *)
(* `undefined`.                                                            *)
(***************************************************************************)
EXTENDS Integers, Sequences, FiniteSets, TLC

VARIABLES board, hasMovedOnce, highlightedCell, selectedCell,
          highlightedMoves, lastEvent, confirmsLeft

vars == <<board, hasMovedOnce, highlightedCell, selectedCell,
          highlightedMoves, lastEvent, confirmsLeft>>

----------------------------------------------------------------------------
(* Bounds of the exploration.                                              *)

\* Return key presses explored from the initial arrangement.
MaxConfirms == 4

\* Return key presses explored from each replayed mid-game position.
MaxMidConfirms == 3

\* Return key presses explored from each sparse end-game position.
MaxSparseConfirms == 1

\* Return key presses explored from each position of the pawn march.
MaxPawnConfirms == 2

----------------------------------------------------------------------------
(* Values.                                                                 *)

\* The value of a read outside the array, and of an unset _selectedCell.
undefined == [row |-> 0, col |-> 0]

\* `undefined` as the result of indexing _board out of its slots.
undefinedCell == 0 - 1

Pieces == 1..32

Coord(r, c) == [row |-> r, col |-> c]

OnBoard(r, c) == r \in 1..8 /\ c \in 1..8

\* The slots of _board the program can read or write with a defined result:
\* the 64 cells, and the slots move() can create next to them
\* (toCell - 2 .. toCell + 1).
Slots == (0 - 2)..64

arrangement ==
  <<"rook", "knight", "bishop", "queen", "king", "bishop", "knight", "rook">>

\* new Piece(name, color): pieces 1..8 black back rank, 9..16 black pawns,
\* 17..24 white pawns, 25..32 white back rank (construction order).
PieceName(p) ==
  IF p \in 1..8 THEN arrangement[p]
  ELSE IF p \in 9..24 THEN "pawn"
  ELSE arrangement[p - 24]

PieceColor(p) == IF p <= 16 THEN "black" ELSE "white"

convert2DIndexTo1D(row, col) == (row - 1) * 8 + col - 1

\* this._board[i]
At(b, i) == IF i \in DOMAIN b THEN b[i] ELSE undefinedCell

\* new Board() followed by arrangeBoard().
arrangeBoard ==
  [i \in Slots |->
     IF i \in 0..15 THEN i + 1
     ELSE IF i \in 16..47 THEN 0
     ELSE IF i \in 48..63 THEN i - 31
     ELSE undefinedCell]

----------------------------------------------------------------------------
(* calculatePaths: one ray per direction.                                  *)

RECURSIVE Ray_KeepsOwnColour(_, _, _, _, _, _, _)
\* Ray pushing the first occupied cell whatever its colour.
Ray_KeepsOwnColour(b, color, i, j, di, dj, singleStep) ==
  LET ni == i + di
      nj == j + dj
  IN IF ~OnBoard(ni, nj) THEN <<>>
     ELSE LET lookahead == At(b, convert2DIndexTo1D(ni, nj))
          IN IF lookahead # 0
             THEN <<Coord(ni, nj)>>
             ELSE <<Coord(ni, nj)>> \o
                  (IF singleStep THEN <<>>
                   ELSE Ray_KeepsOwnColour(b, color, ni, nj, di, dj,
                                           singleStep))

RECURSIVE Ray(_, _, _, _, _, _, _)
\* One loop of calculatePaths: from (i, j) step by (di, dj) while the next
\* cell is on the board; stop at the first occupant (pushed when its colour
\* differs) or after one empty cell when singleStep.
Ray(b, color, i, j, di, dj, singleStep) ==
  LET ni == i + di
      nj == j + dj
  IN IF ~OnBoard(ni, nj) THEN <<>>
     ELSE LET lookahead == At(b, convert2DIndexTo1D(ni, nj))
          IN IF lookahead # 0
             THEN (IF PieceColor(lookahead) # color
                   THEN <<Coord(ni, nj)>> ELSE <<>>)
             ELSE <<Coord(ni, nj)>> \o
                  (IF singleStep THEN <<>>
                   ELSE Ray(b, color, ni, nj, di, dj, singleStep))

calculatePaths(b, cell, sel, singleStep) ==
  LET c == PieceColor(cell)
      row == sel.row
      col == sel.col
  IN [top         |-> Ray(b, c, row, col, 0 - 1, 0, singleStep),
      bottom      |-> Ray(b, c, row, col, 1, 0, singleStep),
      left        |-> Ray(b, c, row, col, 0, 0 - 1, singleStep),
      right       |-> Ray(b, c, row, col, 0, 1, singleStep),
      topLeft     |-> Ray(b, c, row, col, 0 - 1, 0 - 1, singleStep),
      topRight    |-> Ray(b, c, row, col, 0 - 1, 1, singleStep),
      bottomLeft  |-> Ray(b, c, row, col, 1, 0 - 1, singleStep),
      bottomRight |-> Ray(b, c, row, col, 1, 1, singleStep)]

----------------------------------------------------------------------------
(* highlightMoves, one operator per case of the switch.                    *)

\* PawnDiagonal without the capture-only test.
PawnDiagonal_AnyCell(b, cell, path) ==
  IF Len(path) > 0 THEN <<path[1]>> ELSE <<>>

\* The diagonal of a pawn: paths[dir][0] when the path is non-empty and the
\* cell holds a piece of the other colour.
PawnDiagonal(b, cell, path) ==
  IF Len(path) > 0
  THEN LET d == At(b, convert2DIndexTo1D(path[1].row, path[1].col))
       IN IF d # 0 /\ PieceColor(d) # PieceColor(cell)
          THEN <<path[1]>> ELSE <<>>
  ELSE <<>>

PawnTwoStep(b, moved, cell, row, col, direction) ==
  IF At(b, convert2DIndexTo1D(row - 2 * direction, col)) = 0
     /\ ~moved[cell]
  THEN <<Coord(row - 2 * direction, col)>> ELSE <<>>

\* PawnOneStep without the test that the cell is empty.
PawnOneStep_Unchecked(b, cell, row, col, direction) ==
  <<Coord(row - 1 * direction, col)>>

PawnOneStep(b, cell, row, col, direction) ==
  IF At(b, convert2DIndexTo1D(row - 1 * direction, col)) = 0
  THEN <<Coord(row - 1 * direction, col)>> ELSE <<>>

PawnMoves(b, moved, cell, sel) ==
  LET row == sel.row
      col == sel.col
      direction == IF PieceColor(cell) = "white" THEN 1 ELSE 0 - 1
      paths == calculatePaths(b, cell, sel, TRUE)
  IN PawnTwoStep(b, moved, cell, row, col, direction)
     \o PawnOneStep(b, cell, row, col, direction)
     \o (IF direction = 1
         THEN PawnDiagonal(b, cell, paths.topLeft)
              \o PawnDiagonal(b, cell, paths.topRight)
         ELSE PawnDiagonal(b, cell, paths.bottomLeft)
              \o PawnDiagonal(b, cell, paths.bottomRight))

\* RookMoves without the left path.
RookMoves_NoLeft(b, cell, sel) ==
  LET paths == calculatePaths(b, cell, sel, FALSE)
  IN paths.top \o paths.right \o paths.bottom

RookMoves(b, cell, sel) ==
  LET paths == calculatePaths(b, cell, sel, FALSE)
  IN paths.top \o paths.right \o paths.bottom \o paths.left

\* BishopMoves taking bottomLeft twice instead of bottomRight.
BishopMoves_BottomLeftTwice(b, cell, sel) ==
  LET paths == calculatePaths(b, cell, sel, FALSE)
  IN paths.topLeft \o paths.topRight \o paths.bottomLeft \o paths.bottomLeft

BishopMoves(b, cell, sel) ==
  LET paths == calculatePaths(b, cell, sel, FALSE)
  IN paths.topLeft \o paths.topRight \o paths.bottomLeft \o paths.bottomRight

KnightPositions(row, col) ==
  <<Coord(row - 2, col - 1), Coord(row - 2, col + 1),
    Coord(row - 1, col - 2), Coord(row - 1, col + 2),
    Coord(row + 2, col + 1), Coord(row + 2, col - 1),
    Coord(row + 1, col - 2), Coord(row + 1, col + 2)>>

\* KnightKeeps without the test of the colour.
KnightKeeps_AnyColour(b, cell, pos) ==
  LET lookahead == At(b, convert2DIndexTo1D(pos.row, pos.col))
  IN lookahead = 0 \/ (lookahead # undefinedCell /\ lookahead # 0)

\* positions.forEach: the index is computed without a bounds check, so a
\* column outside 1..8 reads a cell of a neighbouring row.
KnightKeeps(b, cell, pos) ==
  LET lookahead == At(b, convert2DIndexTo1D(pos.row, pos.col))
  IN lookahead = 0
     \/ (lookahead # undefinedCell /\ lookahead # 0
         /\ PieceColor(lookahead) # PieceColor(cell))

KnightMoves(b, cell, sel) ==
  SelectSeq(KnightPositions(sel.row, sel.col),
            LAMBDA pos : KnightKeeps(b, cell, pos))

\* The coordinates highlightMoves hands to convert2DIndexTo1D with no test
\* of their range, for the piece `cell` standing on `sel`: the two forward
\* cells of a pawn and the 8 offsets of a knight.  (calculatePaths and the
\* castling scan test the coordinate in their loop conditions.)
UncheckedLookups(cell, sel) ==
  IF PieceName(cell) = "pawn"
  THEN LET direction == IF PieceColor(cell) = "white" THEN 1 ELSE 0 - 1
       IN {Coord(sel.row - 2 * direction, sel.col),
           Coord(sel.row - 1 * direction, sel.col)}
  ELSE IF PieceName(cell) = "knight"
  THEN {KnightPositions(sel.row, sel.col)[k] : k \in 1..8}
  ELSE {}

\* QueenMoves taking the left path twice instead of topLeft.
QueenMoves_LeftTwice(b, cell, sel) ==
  LET paths == calculatePaths(b, cell, sel, FALSE)
  IN paths.top \o paths.right \o paths.bottom \o paths.left
     \o paths.left \o paths.topRight
     \o paths.bottomLeft \o paths.bottomRight

QueenMoves(b, cell, sel) ==
  LET paths == calculatePaths(b, cell, sel, FALSE)
  IN paths.top \o paths.right \o paths.bottom \o paths.left
     \o paths.topLeft \o paths.topRight
     \o paths.bottomLeft \o paths.bottomRight

RECURSIVE CastlingScan_OppositeRank(_, _, _, _, _)
\* CastlingScan reading the cells of the opposite back rank (row 9 - row).
CastlingScan_OppositeRank(b, row, col, dc, piece) ==
  IF (col + dc) \notin 1..8 THEN piece
  ELSE LET p == At(b, convert2DIndexTo1D(9 - row, col + dc))
       IN IF p # 0 THEN p
          ELSE CastlingScan_OppositeRank(b, row, col + dc, dc, p)

RECURSIVE CastlingScan(_, _, _, _, _)
\* for (i = 1; col + dc*i within 1..8; i++) { piece = board[..]; if (piece
\* !== 0) break; }  `piece` is the value the variable holds on entry.
CastlingScan(b, row, col, dc, piece) ==
  IF (col + dc) \notin 1..8 THEN piece
  ELSE LET p == At(b, convert2DIndexTo1D(row, col + dc))
       IN IF p # 0 THEN p ELSE CastlingScan(b, row, col + dc, dc, p)

\* CastlingRook without the test of the rook's flag.
CastlingRook_IgnoresFlag(moved, piece) ==
  piece # 0 /\ piece \in Pieces /\ PieceName(piece) = "rook"

\* piece !== 0 && piece.name === "rook" && !piece.hasMovedOnce
CastlingRook(moved, piece) ==
  piece # 0 /\ piece \in Pieces /\ PieceName(piece) = "rook" /\ ~moved[piece]

\* Castling without the test of the king's flag.
Castling_IgnoresKingFlag(b, moved, cell, row, col) ==
  LET rightPiece == CastlingScan(b, row, col, 1, 0)
      leftPiece == CastlingScan(b, row, col, 0 - 1, rightPiece)
  IN (IF CastlingRook(moved, rightPiece)
      THEN <<Coord(row, col + 2)>> ELSE <<>>)
     \o (IF CastlingRook(moved, leftPiece)
         THEN <<Coord(row, col - 2)>> ELSE <<>>)

Castling(b, moved, cell, row, col) ==
  IF ~moved[cell]
  THEN LET rightPiece == CastlingScan(b, row, col, 1, 0)
           leftPiece == CastlingScan(b, row, col, 0 - 1, rightPiece)
       IN (IF CastlingRook(moved, rightPiece)
           THEN <<Coord(row, col + 2)>> ELSE <<>>)
          \o (IF CastlingRook(moved, leftPiece)
              THEN <<Coord(row, col - 2)>> ELSE <<>>)
  ELSE <<>>

\* KingMoves calling calculatePaths without singleStep.
KingMoves_Sliding(b, moved, cell, sel) ==
  LET paths == calculatePaths(b, cell, sel, FALSE)
  IN paths.top \o paths.right \o paths.bottom \o paths.left
     \o paths.topLeft \o paths.topRight
     \o paths.bottomLeft \o paths.bottomRight
     \o Castling(b, moved, cell, sel.row, sel.col)

KingMoves(b, moved, cell, sel) ==
  LET paths == calculatePaths(b, cell, sel, TRUE)
  IN paths.top \o paths.right \o paths.bottom \o paths.left
     \o paths.topLeft \o paths.topRight
     \o paths.bottomLeft \o paths.bottomRight
     \o Castling(b, moved, cell, sel.row, sel.col)

\* The new value of _highlightedMoves for the piece `cell` standing on the
\* selection `sel`.
highlightMoves(b, moved, cell, sel) ==
  IF sel = undefined THEN <<>>
  ELSE IF PieceName(cell) = "pawn" THEN PawnMoves(b, moved, cell, sel)
  ELSE IF PieceName(cell) = "rook" THEN RookMoves(b, cell, sel)
  ELSE IF PieceName(cell) = "bishop" THEN BishopMoves(b, cell, sel)
  ELSE IF PieceName(cell) = "knight" THEN KnightMoves(b, cell, sel)
  ELSE IF PieceName(cell) = "queen" THEN QueenMoves(b, cell, sel)
  ELSE KingMoves(b, moved, cell, sel)

----------------------------------------------------------------------------
(* move and selectHighlightedCell, as functions of the board object.       *)

\* A board object: the fields of class Board plus the pieces' flags.
BoardObject(b, moved, cur, sel, hl) ==
  [board |-> b, hasMovedOnce |-> moved, highlightedCell |-> cur,
   selectedCell |-> sel, highlightedMoves |-> hl]

\* this._board[i] = v; a write to a slot outside Slots cannot happen for
\* the indices move() computes.
Put(b, i, v) == [b EXCEPT ![i] = v]

InHighlightedMoves(hl, to) ==
  \E k \in 1..Len(hl) : hl[k].row = to.row /\ hl[k].col = to.col

isCastling(b, from, to) ==
  LET piece == At(b, convert2DIndexTo1D(from.row, from.col))
      d == from.col - to.col
  IN piece # 0 /\ PieceName(piece) = "king"
     /\ (IF d < 0 THEN 0 - d ELSE d) = 2

\* CastleRook taking the left rook from toCell - 1 instead of toCell - 2.
CastleRook_WrongLeftOrigin(b, fromCell, toCell) ==
  IF fromCell < toCell
  THEN Put(Put(b, toCell - 1, At(b, toCell + 1)), toCell + 1, 0)
  ELSE IF fromCell > toCell
  THEN Put(Put(b, toCell + 1, At(b, toCell - 1)), toCell - 1, 0)
  ELSE b

\* CastleRook writing the rook next to the king without emptying its origin.
CastleRook_CopiesRook(b, fromCell, toCell) ==
  IF fromCell < toCell
  THEN Put(b, toCell - 1, At(b, toCell + 1))
  ELSE IF fromCell > toCell
  THEN Put(b, toCell + 1, At(b, toCell - 2))
  ELSE b

\* The companion writes of a castling move, after the king was placed.
CastleRook(b, fromCell, toCell) ==
  IF fromCell < toCell
  THEN Put(Put(b, toCell - 1, At(b, toCell + 1)), toCell + 1, 0)
  ELSE IF fromCell > toCell
  THEN Put(Put(b, toCell + 1, At(b, toCell - 2)), toCell - 2, 0)
  ELSE b

\* The indices of _board that move(from, to) assigns when it finds `to` in
\* _highlightedMoves: toCell and fromCell, and for a castling move
\* toCell - 1 and toCell + 1 (right) or toCell + 1 and toCell - 2 (left).
MoveWrites(b, from, to) ==
  LET fromCell == convert2DIndexTo1D(from.row, from.col)
      toCell == convert2DIndexTo1D(to.row, to.col)
  IN {toCell, fromCell}
     \cup (IF ~isCastling(b, from, to) THEN {}
           ELSE IF fromCell < toCell THEN {toCell - 1, toCell + 1}
           ELSE IF fromCell > toCell THEN {toCell + 1, toCell - 2}
           ELSE {})

\* MovedBoard leaving the piece on its origin cell as well.
MovedBoard_KeepsOrigin(b, from, to) ==
  LET fromCell == convert2DIndexTo1D(from.row, from.col)
      toCell == convert2DIndexTo1D(to.row, to.col)
  IN Put(b, toCell, At(b, fromCell))

\* The board after move(from, to) found `to` in _highlightedMoves.
MovedBoard(b, from, to) ==
  LET fromCell == convert2DIndexTo1D(from.row, from.col)
      toCell == convert2DIndexTo1D(to.row, to.col)
      b1 == Put(Put(b, toCell, At(b, fromCell)), fromCell, 0)
  IN IF isCastling(b, from, to) THEN CastleRook(b1, fromCell, toCell)
     ELSE b1

\* deselectCells() without the assignment to _selectedCell.
deselectCells_KeepsSelection(o) == [o EXCEPT !.highlightedMoves = <<>>]

\* deselectCells() without the splice of _highlightedMoves.
deselectCells_KeepsMoves(o) == [o EXCEPT !.selectedCell = undefined]

\* deselectCells()
deselectCells(o) ==
  [o EXCEPT !.selectedCell = undefined, !.highlightedMoves = <<>>]

\* move() returning true without calling deselectCells().
move_KeepsSelectionOnAccept(o, from, to) ==
  IF InHighlightedMoves(o.highlightedMoves, to)
  THEN [obj |-> [o EXCEPT !.board = MovedBoard(@, from, to)],
        result |-> TRUE]
  ELSE [obj |-> deselectCells(o), result |-> FALSE]

\* move() clearing the selection but not _highlightedMoves when it returns
\* true.
move_KeepsMovesOnAccept(o, from, to) ==
  IF InHighlightedMoves(o.highlightedMoves, to)
  THEN [obj |-> [o EXCEPT !.board = MovedBoard(@, from, to),
                          !.selectedCell = undefined],
        result |-> TRUE]
  ELSE [obj |-> deselectCells(o), result |-> FALSE]

\* move() returning false without calling deselectCells().
move_KeepsSelectionOnReject(o, from, to) ==
  IF InHighlightedMoves(o.highlightedMoves, to)
  THEN [obj |-> deselectCells([o EXCEPT !.board = MovedBoard(@, from, to)]),
        result |-> TRUE]
  ELSE [obj |-> o, result |-> FALSE]

\* move(from, to): the board object afterwards (`obj`) and the returned
\* boolean (`result`).
move(o, from, to) ==
  IF InHighlightedMoves(o.highlightedMoves, to)
  THEN [obj |-> deselectCells([o EXCEPT !.board = MovedBoard(@, from, to)]),
        result |-> TRUE]
  ELSE [obj |-> deselectCells(o), result |-> FALSE]

\* MarkMoved leaving the flag of a pawn as it is.
MarkMoved_SkipsPawns(moved, cell, madeLegalMove) ==
  IF madeLegalMove /\ cell # 0 /\ PieceName(cell) # "pawn"
  THEN [moved EXCEPT ![cell] = TRUE] ELSE moved

\* MarkMoved setting the flag whatever move() returned.
MarkMoved_IgnoresResult(moved, cell, madeLegalMove) ==
  IF cell # 0 THEN [moved EXCEPT ![cell] = TRUE] ELSE moved

\* MarkMoved never setting the flag.
MarkMoved_Never(moved, cell, madeLegalMove) == moved

\* if (madeLegalMove && cell !== 0) cell.hasMovedOnce = true
MarkMoved(moved, cell, madeLegalMove) ==
  IF madeLegalMove /\ cell # 0 THEN [moved EXCEPT ![cell] = TRUE] ELSE moved

\* moveMode getter.
moveMode(o) == Len(o.highlightedMoves) > 0

\* selectHighlightedCell() taking the cursor back to the origin of an
\* accepted move.
selectHighlightedCell_CursorToOrigin(o) ==
  LET cur == o.highlightedCell
      sel == o.selectedCell
      index1D == convert2DIndexTo1D(cur.row, cur.col)
  IN IF sel # undefined /\ cur.row = sel.row /\ cur.col = sel.col
     THEN [obj |-> deselectCells(o), event |-> "deselect"]
     ELSE IF moveMode(o) /\ sel # undefined
     THEN LET cell == At(o.board, convert2DIndexTo1D(sel.row, sel.col))
              m == move(o, sel, cur)
          IN [obj |-> [m.obj EXCEPT
                         !.hasMovedOnce = MarkMoved(@, cell, m.result),
                         !.highlightedCell = IF m.result THEN sel ELSE @],
              event |-> IF m.result THEN "accepted" ELSE "rejected"]
     ELSE IF At(o.board, index1D) # 0
     THEN [obj |-> [o EXCEPT !.selectedCell = cur,
                             !.highlightedMoves =
                                highlightMoves(o.board, o.hasMovedOnce,
                                               At(o.board, index1D), cur)],
           event |-> "select"]
     ELSE [obj |-> o, event |-> "none"]

\* selectHighlightedCell() calling move() whenever a selection exists,
\* without the test of moveMode.
selectHighlightedCell_AlwaysMoves(o) ==
  LET cur == o.highlightedCell
      sel == o.selectedCell
      index1D == convert2DIndexTo1D(cur.row, cur.col)
  IN IF sel # undefined /\ cur.row = sel.row /\ cur.col = sel.col
     THEN [obj |-> deselectCells(o), event |-> "deselect"]
     ELSE IF sel # undefined
     THEN LET cell == At(o.board, convert2DIndexTo1D(sel.row, sel.col))
              m == move(o, sel, cur)
          IN [obj |-> [m.obj EXCEPT
                         !.hasMovedOnce = MarkMoved(@, cell, m.result)],
              event |-> IF m.result THEN "accepted" ELSE "rejected"]
     ELSE IF At(o.board, index1D) # 0
     THEN [obj |-> [o EXCEPT !.selectedCell = cur,
                             !.highlightedMoves =
                                highlightMoves(o.board, o.hasMovedOnce,
                                               At(o.board, index1D), cur)],
           event |-> "select"]
     ELSE [obj |-> o, event |-> "none"]

\* selectHighlightedCell() setting the selection without calling
\* highlightMoves().
selectHighlightedCell_NoMoves(o) ==
  LET cur == o.highlightedCell
      sel == o.selectedCell
      index1D == convert2DIndexTo1D(cur.row, cur.col)
  IN IF sel # undefined /\ cur.row = sel.row /\ cur.col = sel.col
     THEN [obj |-> deselectCells(o), event |-> "deselect"]
     ELSE IF moveMode(o) /\ sel # undefined
     THEN LET cell == At(o.board, convert2DIndexTo1D(sel.row, sel.col))
              m == move(o, sel, cur)
          IN [obj |-> [m.obj EXCEPT
                         !.hasMovedOnce = MarkMoved(@, cell, m.result)],
              event |-> IF m.result THEN "accepted" ELSE "rejected"]
     ELSE IF At(o.board, index1D) # 0
     THEN [obj |-> [o EXCEPT !.selectedCell = cur,
                             !.highlightedMoves = <<>>],
           event |-> "select"]
     ELSE [obj |-> o, event |-> "none"]

\* selectHighlightedCell() refusing to select a piece that has moved.
selectHighlightedCell_UnmovedOnly(o) ==
  LET cur == o.highlightedCell
      sel == o.selectedCell
      index1D == convert2DIndexTo1D(cur.row, cur.col)
  IN IF sel # undefined /\ cur.row = sel.row /\ cur.col = sel.col
     THEN [obj |-> deselectCells(o), event |-> "deselect"]
     ELSE IF moveMode(o) /\ sel # undefined
     THEN LET cell == At(o.board, convert2DIndexTo1D(sel.row, sel.col))
              m == move(o, sel, cur)
          IN [obj |-> [m.obj EXCEPT
                         !.hasMovedOnce = MarkMoved(@, cell, m.result)],
              event |-> IF m.result THEN "accepted" ELSE "rejected"]
     ELSE IF At(o.board, index1D) # 0
             /\ ~o.hasMovedOnce[At(o.board, index1D)]
     THEN [obj |-> [o EXCEPT !.selectedCell = cur,
                             !.highlightedMoves =
                                highlightMoves(o.board, o.hasMovedOnce,
                                               At(o.board, index1D), cur)],
           event |-> "select"]
     ELSE [obj |-> o, event |-> "none"]

\* selectHighlightedCell() selecting the cursor's cell without testing that
\* it holds a piece.
selectHighlightedCell_SelectsEmpty(o) ==
  LET cur == o.highlightedCell
      sel == o.selectedCell
      index1D == convert2DIndexTo1D(cur.row, cur.col)
  IN IF sel # undefined /\ cur.row = sel.row /\ cur.col = sel.col
     THEN [obj |-> deselectCells(o), event |-> "deselect"]
     ELSE IF moveMode(o) /\ sel # undefined
     THEN LET cell == At(o.board, convert2DIndexTo1D(sel.row, sel.col))
              m == move(o, sel, cur)
          IN [obj |-> [m.obj EXCEPT
                         !.hasMovedOnce = MarkMoved(@, cell, m.result)],
              event |-> IF m.result THEN "accepted" ELSE "rejected"]
     ELSE [obj |-> [o EXCEPT !.selectedCell = cur,
                             !.highlightedMoves =
                                IF At(o.board, index1D) # 0
                                THEN highlightMoves(o.board, o.hasMovedOnce,
                                                    At(o.board, index1D), cur)
                                ELSE <<>>],
           event |-> "select"]

\* selectHighlightedCell(): the board object afterwards (`obj`), with the
\* branch taken recorded in `event`.
selectHighlightedCell(o) ==
  LET cur == o.highlightedCell
      sel == o.selectedCell
      index1D == convert2DIndexTo1D(cur.row, cur.col)
  IN IF sel # undefined /\ cur.row = sel.row /\ cur.col = sel.col
     THEN [obj |-> deselectCells(o), event |-> "deselect"]
     ELSE IF moveMode(o) /\ sel # undefined
     THEN LET cell == At(o.board, convert2DIndexTo1D(sel.row, sel.col))
              m == move(o, sel, cur)
          IN [obj |-> [m.obj EXCEPT
                         !.hasMovedOnce = MarkMoved(@, cell, m.result)],
              event |-> IF m.result THEN "accepted" ELSE "rejected"]
     ELSE IF At(o.board, index1D) # 0
     THEN [obj |-> [o EXCEPT !.selectedCell = cur,
                             !.highlightedMoves =
                                highlightMoves(o.board, o.hasMovedOnce,
                                               At(o.board, index1D), cur)],
           event |-> "select"]
     ELSE [obj |-> o, event |-> "none"]

----------------------------------------------------------------------------
(* The handlers as actions.                                                *)

Self == BoardObject(board, hasMovedOnce, highlightedCell, selectedCell,
                    highlightedMoves)

\* A cursor move that also drops the selection.
CursorFrame_Deselects ==
  /\ lastEvent' = "cursor"
  /\ selectedCell' = undefined
  /\ highlightedMoves' = <<>>
  /\ UNCHANGED <<board, hasMovedOnce, confirmsLeft>>

CursorFrame ==
  /\ lastEvent' = "cursor"
  /\ UNCHANGED <<board, hasMovedOnce, selectedCell, highlightedMoves,
                 confirmsLeft>>

\* moveUp wrapping from row 1 to row 8.
moveUp_Wraps ==
  /\ highlightedCell' =
       [highlightedCell EXCEPT
          !.row = IF highlightedCell.row > 1 THEN @ - 1 ELSE 8]
  /\ lastEvent' = "cursor"
  /\ UNCHANGED <<board, hasMovedOnce, selectedCell, highlightedMoves,
                 confirmsLeft>>

moveUp ==
  /\ highlightedCell' =
       [highlightedCell EXCEPT
          !.row = @ - (IF highlightedCell.row > 1 THEN 1 ELSE 0)]
  /\ CursorFrame

moveDown ==
  /\ highlightedCell' =
       [highlightedCell EXCEPT
          !.row = @ + (IF highlightedCell.row < 8 THEN 1 ELSE 0)]
  /\ CursorFrame

\* moveLeft stopping at column 0 instead of column 1.
moveLeft_StopsAtZero ==
  /\ highlightedCell' =
       [highlightedCell EXCEPT
          !.col = @ - (IF highlightedCell.col > 0 THEN 1 ELSE 0)]
  /\ CursorFrame

moveLeft ==
  /\ highlightedCell' =
       [highlightedCell EXCEPT
          !.col = @ - (IF highlightedCell.col > 1 THEN 1 ELSE 0)]
  /\ CursorFrame

moveRight ==
  /\ highlightedCell' =
       [highlightedCell EXCEPT
          !.col = @ + (IF highlightedCell.col < 8 THEN 1 ELSE 0)]
  /\ CursorFrame

\* The "return" key.
Confirm ==
  /\ confirmsLeft > 0
  /\ LET r == selectHighlightedCell(Self)
     IN /\ board' = r.obj.board
        /\ hasMovedOnce' = r.obj.hasMovedOnce
        /\ highlightedCell' = r.obj.highlightedCell
        /\ selectedCell' = r.obj.selectedCell
        /\ highlightedMoves' = r.obj.highlightedMoves
        /\ lastEvent' = r.event
  /\ confirmsLeft' = confirmsLeft - 1

\* NewBoard with the cursor on the white king.
NewBoard_CursorOnKing ==
  BoardObject(arrangeBoard, [p \in Pieces |-> FALSE], Coord(8, 5),
              undefined, <<>>)

\* The state once the module has run `new Board()` and arrangeBoard().
NewBoard ==
  BoardObject(arrangeBoard, [p \in Pieces |-> FALSE], Coord(7, 5),
              undefined, <<>>)

Init ==
  /\ board = NewBoard.board
  /\ hasMovedOnce = NewBoard.hasMovedOnce
  /\ highlightedCell = NewBoard.highlightedCell
  /\ selectedCell = NewBoard.selectedCell
  /\ highlightedMoves = NewBoard.highlightedMoves
  /\ lastEvent = "start"
  /\ confirmsLeft = MaxConfirms

Next == moveUp \/ moveDown \/ moveLeft \/ moveRight \/ Confirm

Spec == Init /\ [][Next]_vars

----------------------------------------------------------------------------
(* Mid-game positions.  Each is the board object reached from NewBoard by  *)
(* replaying a key script through the handlers above: the cursor is taken  *)
(* to a cell (arrow keys), return is pressed, the cursor is taken to a     *)
(* second cell and return is pressed again.  SpecMid explores the handlers *)
(* from these positions.                                                   *)

\* The cursor after the arrow keys that take it to (r, c).
CursorTo(o, r, c) == [o EXCEPT !.highlightedCell = Coord(r, c)]

\* One scripted pair of return presses: on (m[1], m[2]), then on (m[3], m[4]).
PlayMove(o, m) ==
  selectHighlightedCell(
    CursorTo(selectHighlightedCell(CursorTo(o, m[1], m[2])).obj,
             m[3], m[4])).obj

RECURSIVE Replay(_, _)
Replay(o, script) ==
  IF script = <<>> THEN o
  ELSE Replay(PlayMove(o, Head(script)), Tail(script))

\* White: d- and e-pawn two steps, both bishops, the queen and both knights
\* leave the back rank (row 8 is R . . . K . . R); black e-pawn two steps,
\* so that it faces the white e-pawn and stands on a diagonal of the white
\* d-pawn.
OpenWhiteRank ==
  <<<<7, 4, 5, 4>>, <<7, 5, 5, 5>>, <<8, 3, 6, 5>>, <<8, 6, 6, 4>>,
    <<8, 4, 7, 4>>, <<8, 2, 6, 3>>, <<8, 7, 6, 6>>, <<2, 5, 4, 5>>>>

\* Black: g-pawn one step, knight and bishop leave the king side, h-rook
\* untouched (row 1 is R N B Q K . . R).
OpenBlackKingSide ==
  <<<<2, 7, 3, 7>>, <<1, 7, 3, 8>>, <<1, 6, 2, 7>>>>

\* As OpenBlackKingSide, then the h-rook steps to g8 and back.
BlackRookReturned ==
  OpenBlackKingSide \o <<<<1, 8, 1, 7>>, <<1, 7, 1, 8>>>>

\* As OpenBlackKingSide, then the king steps to f8 and back.
BlackKingReturned ==
  OpenBlackKingSide \o <<<<1, 5, 1, 6>>, <<1, 6, 1, 5>>>>

\* A white knight walks to (3, 2), in front of the unmoved black
\* b-pawn and on a diagonal of the black a- and c-pawns.
KnightFacesPawns ==
  <<<<8, 2, 6, 3>>, <<6, 3, 4, 4>>, <<4, 4, 3, 2>>>>

Scripts ==
  {<<>>, OpenWhiteRank, OpenBlackKingSide, BlackRookReturned,
   BlackKingReturned, KnightFacesPawns}

InitMid ==
  /\ \E script \in Scripts :
       LET o == Replay(NewBoard, script)
       IN /\ board = o.board
          /\ hasMovedOnce = o.hasMovedOnce
          /\ highlightedCell = o.highlightedCell
          /\ selectedCell = o.selectedCell
          /\ highlightedMoves = o.highlightedMoves
  /\ lastEvent = "start"
  /\ confirmsLeft = MaxMidConfirms

SpecMid == InitMid /\ [][Next]_vars

----------------------------------------------------------------------------
(* Vocabulary of the properties.                                           *)

\* The step just taken was a press of return (selectHighlightedCell ran).
ConfirmEvents == {"deselect", "accepted", "rejected", "select", "none"}

Idle == selectedCell = undefined /\ highlightedMoves = <<>>

Selected == selectedCell # undefined

Cells == 0..63

IndexOf(c) == convert2DIndexTo1D(c.row, c.col)

\* The piece on a coordinate of the board, 0 when the cell is empty.
Occupant(c) == board[IndexOf(c)]

\* The coordinates listed in _highlightedMoves.
HighlightedSet == {highlightedMoves[k] : k \in 1..Len(highlightedMoves)}

----------------------------------------------------------------------------
(* C1 -- C3: the commit step.                                              *)

C2_RejectedMoveChangesNothing ==
  [][(/\ Selected
      /\ highlightedMoves # <<>>
      /\ lastEvent' \in ConfirmEvents
      /\ highlightedCell # selectedCell
      /\ highlightedCell \notin HighlightedSet)
     => (/\ lastEvent' = "rejected"
         /\ board' = board
         /\ hasMovedOnce' = hasMovedOnce
         /\ Idle')]_vars

\* A move has just been rejected, and the grid and the flags are still those
\* of the initial arrangement.
C2_Witness ==
  /\ lastEvent = "rejected"
  /\ Idle
  /\ board = arrangeBoard
  /\ \A p \in Pieces : ~hasMovedOnce[p]

\* C3: in move mode, return with the cursor on a cell of HighlightedMoves is
\* an accepted move; unless it is a king move of two columns, the destination
\* then holds the piece of the selected cell, the selected cell is empty and
\* every other cell is unchanged.  No other event changes the grid.
C3_PlainMoveFrame ==
  [][/\ (/\ Selected
         /\ lastEvent' \in ConfirmEvents
         /\ highlightedCell # selectedCell
         /\ highlightedCell \in HighlightedSet)
        => lastEvent' = "accepted"
     /\ (/\ lastEvent' = "accepted"
         /\ ~(/\ PieceName(Occupant(selectedCell)) = "king"
              /\ selectedCell.col - highlightedCell.col \in {0 - 2, 2}))
        => (/\ Occupant(selectedCell) # 0
            /\ board'[IndexOf(highlightedCell)] = Occupant(selectedCell)
            /\ board'[IndexOf(selectedCell)] = 0
            /\ \A i \in Slots \ {IndexOf(highlightedCell),
                                   IndexOf(selectedCell)} :
                  board'[i] = board[i])
     /\ (board' # board => lastEvent' = "accepted")]_vars

\* A piece other than a king has just been moved onto the cursor's cell,
\* capturing nothing or something.
C3_Witness ==
  /\ lastEvent = "accepted"
  /\ Occupant(highlightedCell) # 0
  /\ PieceName(Occupant(highlightedCell)) # "king"

----------------------------------------------------------------------------
(* C4 -- C7: castling and the hasMovedOnce flags.                          *)

KingSelected ==
  /\ Selected
  /\ Occupant(selectedCell) # 0
  /\ PieceName(Occupant(selectedCell)) = "king"

\* The column of the first non-empty cell met from (row, col) along the row
\* in direction dc, 0 when every cell up to the edge is empty.
FirstOccupied(row, col, dc) ==
  LET met == {c \in 1..8 : (c - col) * dc > 0 /\ Occupant(Coord(row, c)) # 0}
  IN IF met = {} THEN 0
     ELSE CHOOSE c \in met : \A d \in met : (c - col) * dc <= (d - col) * dc

\* The first non-empty cell in direction dc holds a rook whose flag is false.
UnmovedRookAhead(row, col, dc) ==
  LET c == FirstOccupied(row, col, dc)
  IN /\ c # 0
     /\ PieceName(Occupant(Coord(row, c))) = "rook"
     /\ ~hasMovedOnce[Occupant(Coord(row, c))]

\* C4: with a king selected, the cell two columns to the right (left) is in
\* HighlightedMoves exactly when the king's flag is false and the first
\* non-empty cell to the right (left) of the king on its row is a rook whose
\* flag is false.
C4_CastlingOfferedIff ==
  KingSelected =>
    \A dc \in {0 - 1, 1} :
      (Coord(selectedCell.row, selectedCell.col + 2 * dc) \in HighlightedSet)
      <=> (/\ ~hasMovedOnce[Occupant(selectedCell)]
           /\ UnmovedRookAhead(selectedCell.row, selectedCell.col, dc))

\* A king is selected and is offered both castling destinations.
C4_Witness ==
  /\ KingSelected
  /\ Coord(selectedCell.row, selectedCell.col + 2) \in HighlightedSet
  /\ Coord(selectedCell.row, selectedCell.col - 2) \in HighlightedSet

\* C5: an accepted move of a king by two columns also moves the rook found
\* by the scan in that direction to the cell the king passed over (king
\* 5 -> 7: rook 8 -> 6; king 5 -> 3: rook 1 -> 4), empties the rook's
\* origin, and changes no cell other than these four.
C5_CastlingRelocatesRook ==
  [][(/\ lastEvent' = "accepted"
      /\ KingSelected
      /\ selectedCell.col - highlightedCell.col \in {0 - 2, 2})
     => LET from == selectedCell
            to == highlightedCell
            dc == IF to.col > from.col THEN 1 ELSE 0 - 1
            rookFrom == Coord(from.row, FirstOccupied(from.row, from.col, dc))
            rookTo == Coord(from.row, to.col - dc)
        IN /\ to.row = from.row
           /\ rookFrom.col # 0
           /\ PieceName(Occupant(rookFrom)) = "rook"
           /\ board'[IndexOf(to)] = Occupant(from)
           /\ board'[IndexOf(from)] = 0
           /\ board'[IndexOf(rookTo)] = Occupant(rookFrom)
           /\ board'[IndexOf(rookFrom)] = 0
           /\ \A i \in Slots \ {IndexOf(to), IndexOf(from),
                                  IndexOf(rookTo), IndexOf(rookFrom)} :
                 board'[i] = board[i]
           /\ (to.col = 7 => (from.col = 5 /\ rookFrom.col = 8
                               /\ rookTo.col = 6))
           /\ (to.col = 3 => (from.col = 5 /\ rookFrom.col = 1
                               /\ rookTo.col = 4))]_vars

\* A king has just castled to the left: it stands on column 3 under the
\* cursor with a rook on column 4 and an empty corner.
C5_Witness ==
  /\ lastEvent = "accepted"
  /\ highlightedCell.col = 3
  /\ Occupant(highlightedCell) # 0
  /\ PieceName(Occupant(highlightedCell)) = "king"
  /\ Occupant(Coord(highlightedCell.row, 4)) # 0
  /\ PieceName(Occupant(Coord(highlightedCell.row, 4))) = "rook"
  /\ Occupant(Coord(highlightedCell.row, 1)) = 0
  /\ Occupant(Coord(highlightedCell.row, 5)) = 0

\* C6 (as stated): every piece that changed cell during a press of return
\* has its flag set by the end of that press; after castling both the king
\* and the rook have it set.
C6_EveryRelocatedPieceFlagged ==
  [][lastEvent' = "accepted"
     => \A i \in Cells :
          (board'[i] # 0 /\ board'[i] # board[i]) => hasMovedOnce'[board'[i]]]_vars

\* C7: a flag changes only in an accepted move and only from false to true,
\* and the piece moved from the selected cell to the cursor's cell has its
\* flag set afterwards.
C7_FlagOnlyByAcceptedMove ==
  [][/\ (hasMovedOnce' # hasMovedOnce => lastEvent' = "accepted")
     /\ (\A p \in Pieces : hasMovedOnce[p] => hasMovedOnce'[p])
     /\ (lastEvent' = "accepted"
         => (/\ board'[IndexOf(highlightedCell)] = Occupant(selectedCell)
             /\ Occupant(selectedCell) # 0
             /\ hasMovedOnce'[Occupant(selectedCell)]))]_vars

\* After an accepted move exactly one flag is set: that of the piece under
\* the cursor.
C7_Witness ==
  /\ lastEvent = "accepted"
  /\ Occupant(highlightedCell) # 0
  /\ {p \in Pieces : hasMovedOnce[p]} = {Occupant(highlightedCell)}

----------------------------------------------------------------------------
(* C8 -- C10: the pawn rules.                                              *)

PawnSelected ==
  /\ Selected
  /\ Occupant(selectedCell) # 0
  /\ PieceName(Occupant(selectedCell)) = "pawn"

\* The row step that is forward for the selected piece: white pawns go to
\* lower rows, black pawns to higher rows.
Forward == IF PieceColor(Occupant(selectedCell)) = "white" THEN 0 - 1 ELSE 1

\* The cell k steps forward of the selection, and its forward diagonals.
Ahead(k) == Coord(selectedCell.row + k * Forward, selectedCell.col)

Diagonal(dc) == Coord(selectedCell.row + Forward, selectedCell.col + dc)

EmptyCell(c) == OnBoard(c.row, c.col) /\ Occupant(c) = 0

EnemyCell(c) ==
  /\ OnBoard(c.row, c.col)
  /\ Occupant(c) # 0
  /\ PieceColor(Occupant(c)) # PieceColor(Occupant(selectedCell))

\* C8 (as stated): with a pawn selected, the cell two steps forward is in
\* HighlightedMoves exactly when the pawn's flag is false and both the cell
\* one step forward and the cell two steps forward are empty.
C8_TwoStepNeedsBothEmpty ==
  PawnSelected =>
    ((Ahead(2) \in HighlightedSet)
     <=> (/\ ~hasMovedOnce[Occupant(selectedCell)]
          /\ EmptyCell(Ahead(1))
          /\ EmptyCell(Ahead(2))))

\* C9: with a pawn selected, each forward diagonal is in HighlightedMoves
\* exactly when it is on the board and holds a piece of the other colour;
\* every entry lies strictly forward of the pawn, and an entry off the
\* pawn's column is an occupied cell.
C9_DiagonalsCaptureOnly ==
  PawnSelected =>
    /\ \A dc \in {0 - 1, 1} :
         (Diagonal(dc) \in HighlightedSet) <=> EnemyCell(Diagonal(dc))
    /\ \A m \in HighlightedSet :
         /\ (m.row - selectedCell.row) * Forward > 0
         /\ (m.col # selectedCell.col => EnemyCell(m))

\* A pawn is selected and one of its diagonals is offered.
C9_Witness ==
  /\ PawnSelected
  /\ \E dc \in {0 - 1, 1} : Diagonal(dc) \in HighlightedSet

\* C10: with a pawn selected, the cell one step forward is in
\* HighlightedMoves exactly when it is on the board and empty; when the
\* pawn's flag is false, both forward cells are empty and no diagonal holds
\* a piece of the other colour, HighlightedMoves is exactly the one-step and
\* the two-step cell.
C10_ForwardMoves ==
  PawnSelected =>
    /\ (Ahead(1) \in HighlightedSet) <=> EmptyCell(Ahead(1))
    /\ (/\ ~hasMovedOnce[Occupant(selectedCell)]
        /\ EmptyCell(Ahead(1))
        /\ EmptyCell(Ahead(2))
        /\ \A dc \in {0 - 1, 1} : ~EnemyCell(Diagonal(dc)))
       => (/\ HighlightedSet = {Ahead(1), Ahead(2)}
           /\ Len(highlightedMoves) = 2)

\* An unmoved pawn is selected and is offered exactly its two forward cells.
C10_Witness ==
  /\ PawnSelected
  /\ ~hasMovedOnce[Occupant(selectedCell)]
  /\ HighlightedSet = {Ahead(1), Ahead(2)}
  /\ Len(highlightedMoves) = 2

----------------------------------------------------------------------------
(* C11 -- C12: the knight rule.                                            *)

KnightSelected ==
  /\ Selected
  /\ Occupant(selectedCell) # 0
  /\ PieceName(Occupant(selectedCell)) = "knight"

\* The 8 cells a knight's offsets name from the selection, on the board or
\* not.
KnightCandidates ==
  {Coord(selectedCell.row + dr, selectedCell.col + dc) :
     <<dr, dc>> \in {<<1, 2>>, <<1, 0 - 2>>, <<0 - 1, 2>>, <<0 - 1, 0 - 2>>,
                     <<2, 1>>, <<2, 0 - 1>>, <<0 - 2, 1>>, <<0 - 2, 0 - 1>>}}

\* The candidates a knight may go to: on the board, and empty or held by
\* the other colour.
KnightTargets == {c \in KnightCandidates : EmptyCell(c) \/ EnemyCell(c)}

\* The board holds the selected piece and nothing else.
AloneOnBoard ==
  \A i \in Cells : i # IndexOf(selectedCell) => board[i] = 0

\* The distance of the selection from the nearest edge along one axis.
EdgeDistance(x) == IF x - 1 < 8 - x THEN x - 1 ELSE 8 - x

\* C11 (as stated): with a knight selected, a candidate offset is in
\* HighlightedMoves exactly when its row and column are both in 1..8 and
\* its cell is empty or holds the other colour; no coordinate outside the
\* board is ever in HighlightedMoves.
C11_KnightTargetsInRange ==
  KnightSelected =>
    /\ \A c \in KnightCandidates :
         (c \in HighlightedSet) <=> (c \in KnightTargets)
    /\ \A m \in HighlightedSet : OnBoard(m.row, m.col)

\* C12 (as stated): the number of entries offered to a knight is the
\* number of its on-board candidates not held by its own colour; alone on
\* the board that number is one of 2, 3, 4, 6, 8: 2 in a corner, at most 4
\* on an edge, 8 when the knight is two cells or more from every edge.
C12_KnightCount ==
  KnightSelected =>
    /\ Len(highlightedMoves) = Cardinality(KnightTargets)
    /\ AloneOnBoard =>
         LET dRow == EdgeDistance(selectedCell.row)
             dCol == EdgeDistance(selectedCell.col)
         IN /\ Len(highlightedMoves) \in {2, 3, 4, 6, 8}
            /\ (dRow = 0 /\ dCol = 0 => Len(highlightedMoves) = 2)
            /\ (dRow = 0 \/ dCol = 0 => Len(highlightedMoves) <= 4)
            /\ (dRow >= 2 /\ dCol >= 2 => Len(highlightedMoves) = 8)

----------------------------------------------------------------------------
(* Sparse positions.  With no turn order and no protection of the king,    *)
(* captures can empty the board down to any one piece (the last capture is *)
(* made by the survivor, which can then walk to every cell its kind can    *)
(* reach), or to a piece and a pawn that advanced on its own column.       *)
(* SpecSparse explores the handlers from such positions and from the       *)
(* replayed positions of Scripts.                                          *)

\* The board holding exactly the pieces of `placed`, a set of
\* <<piece, row, col>>.
SparseBoard(placed) ==
  [i \in Slots |->
     IF \E t \in placed : convert2DIndexTo1D(t[2], t[3]) = i
     THEN (CHOOSE t \in placed : convert2DIndexTo1D(t[2], t[3]) = i)[1]
     ELSE IF i \in 0..63 THEN 0
     ELSE undefinedCell]

\* The white a-rook, or the white queen, alone on any cell; a white bishop
\* alone on any cell of its colour complex (the c-bishop starts on (8,3),
\* the f-bishop on (8,6)); the white a-rook on (4,4) with the black g-pawn
\* advanced to (4,7).
SparsePlacements ==
  {{<<p, r, c>>} : p \in {25, 28}, r \in 1..8, c \in 1..8}
  \cup {{<<IF (r + c) % 2 = 1 THEN 27 ELSE 30, r, c>>} :
          r \in 1..8, c \in 1..8}
  \cup {{<<25, 4, 4>>, <<15, 4, 7>>}}

\* The board object of a sparse placement: every piece has moved, the
\* cursor rests on the white piece (where its last move ended).
SparseObject(placed) ==
  LET w == CHOOSE t \in placed : PieceColor(t[1]) = "white"
  IN BoardObject(SparseBoard(placed), [p \in Pieces |-> TRUE],
                 Coord(w[2], w[3]), undefined, <<>>)

InitSparse ==
  /\ \E o \in {SparseObject(placed) : placed \in SparsePlacements}
              \cup {Replay(NewBoard, script) : script \in Scripts} :
       /\ board = o.board
       /\ hasMovedOnce = o.hasMovedOnce
       /\ highlightedCell = o.highlightedCell
       /\ selectedCell = o.selectedCell
       /\ highlightedMoves = o.highlightedMoves
  /\ lastEvent = "start"
  /\ confirmsLeft = MaxSparseConfirms

SpecSparse == InitSparse /\ [][Next]_vars

----------------------------------------------------------------------------
(* C13 -- C17: rays and the pieces built on them.                          *)

\* The 8 directions of calculatePaths as (row step, column step): top is
\* towards row 1, left towards column 1.
Directions ==
  [top |-> <<0 - 1, 0>>, bottom |-> <<1, 0>>,
   left |-> <<0, 0 - 1>>, right |-> <<0, 1>>,
   topLeft |-> <<0 - 1, 0 - 1>>, topRight |-> <<0 - 1, 1>>,
   bottomLeft |-> <<1, 0 - 1>>, bottomRight |-> <<1, 1>>]

Orthogonals == {"top", "right", "bottom", "left"}

Diagonals == {"topLeft", "topRight", "bottomLeft", "bottomRight"}

\* The cell k steps from `o` in direction d.
StepFrom(o, d, k) ==
  Coord(o.row + k * Directions[d][1], o.col + k * Directions[d][2])

\* The number of unit steps from coordinate x to the edge when stepping by
\* s (7 when the coordinate does not change).
AxisSteps(x, s) == IF s = 1 THEN 8 - x ELSE IF s = 0 - 1 THEN x - 1 ELSE 7

\* The number of steps from `o` to the board edge in direction d.
EdgeSteps(o, d) ==
  LET rows == AxisSteps(o.row, Directions[d][1])
      cols == AxisSteps(o.col, Directions[d][2])
  IN IF rows < cols THEN rows ELSE cols

\* The distance of the first non-empty cell from `o` in direction d, 0
\* when every cell up to the edge is empty.
FirstHit(o, d) ==
  LET hits == {k \in 1..EdgeSteps(o, d) : Occupant(StepFrom(o, d, k)) # 0}
  IN IF hits = {} THEN 0 ELSE CHOOSE k \in hits : \A h \in hits : k <= h

\* The length of the ray: up to the edge, or up to the first non-empty
\* cell, that cell included only when its piece is not of `color`.
RayLength(o, d, color) ==
  LET hit == FirstHit(o, d)
  IN IF hit = 0 THEN EdgeSteps(o, d)
     ELSE IF PieceColor(Occupant(StepFrom(o, d, hit))) # color THEN hit
     ELSE hit - 1

\* The ray as the list of its cells by increasing distance.
ExpectedRay(o, d, color) ==
  [k \in 1..RayLength(o, d, color) |-> StepFrom(o, d, k)]

ExpectedRaySet(o, d, color) ==
  {StepFrom(o, d, k) : k \in 1..RayLength(o, d, color)}

\* C13: from the cursor's cell as origin, for both colours and each of the
\* 8 directions, calculatePaths without singleStep returns exactly the
\* cells up to the edge or the first non-empty cell by increasing
\* distance, that cell included exactly when its colour differs.
C13_RaysStopAtFirstOccupant ==
  \A mover \in {1, 25} :
    LET paths == calculatePaths(board, mover, highlightedCell, FALSE)
    IN \A d \in DOMAIN Directions :
         paths[d] = ExpectedRay(highlightedCell, d, PieceColor(mover))

\* The white rook on (4,4) is selected with only the black pawn on (4,7)
\* beside it, and is offered columns 1,2,3,5,6,7 of row 4 and rows
\* 1,2,3,5,6,7,8 of column 4.
C13_Witness ==
  /\ selectedCell = Coord(4, 4)
  /\ board = SparseBoard({<<25, 4, 4>>, <<15, 4, 7>>})
  /\ HighlightedSet = {Coord(4, c) : c \in {1, 2, 3, 5, 6, 7}}
                        \cup {Coord(r, 4) : r \in {1, 2, 3, 5, 6, 7, 8}}
  /\ Len(highlightedMoves) = 13

PieceSelected(name) ==
  /\ Selected
  /\ Occupant(selectedCell) # 0
  /\ PieceName(Occupant(selectedCell)) = name

\* The union of the rays of the selected piece along the directions ds.
SelectedRays(ds) ==
  UNION {ExpectedRaySet(selectedCell, d, PieceColor(Occupant(selectedCell))) :
           d \in ds}

\* The selection is at least one cell away from every edge.
StrictlyInside == selectedCell.row \in 2..7 /\ selectedCell.col \in 2..7

\* The sum of the distances to the edge along the 4 diagonals.
DiagonalSteps ==
  EdgeSteps(selectedCell, "topLeft") + EdgeSteps(selectedCell, "topRight")
  + EdgeSteps(selectedCell, "bottomLeft")
  + EdgeSteps(selectedCell, "bottomRight")

\* C14: with a rook selected, HighlightedMoves is exactly the union of the 4
\* orthogonal rays, each cell once; alone on the board and strictly inside
\* it the rook has exactly 14 entries.
C14_RookRays ==
  PieceSelected("rook") =>
    /\ HighlightedSet = SelectedRays(Orthogonals)
    /\ Len(highlightedMoves) = Cardinality(HighlightedSet)
    /\ (AloneOnBoard /\ StrictlyInside) => Len(highlightedMoves) = 14

\* A rook alone on the board and strictly inside it is selected and has 14
\* entries.
C14_Witness ==
  /\ PieceSelected("rook")
  /\ AloneOnBoard
  /\ StrictlyInside
  /\ Len(highlightedMoves) = 14

\* C15: with a bishop selected, HighlightedMoves is exactly the union of
\* the 4 diagonal rays, each cell once; alone on the board and strictly
\* inside it the bishop has between 7 and 13 entries, the sum of the
\* lengths of the 4 diagonals from its cell.
C15_BishopRays ==
  PieceSelected("bishop") =>
    /\ HighlightedSet = SelectedRays(Diagonals)
    /\ Len(highlightedMoves) = Cardinality(HighlightedSet)
    /\ (AloneOnBoard /\ StrictlyInside) =>
         (/\ Len(highlightedMoves) \in 7..13
          /\ Len(highlightedMoves) = DiagonalSteps)

\* A bishop alone on the board on a central cell is selected and has 13
\* entries.
C15_Witness ==
  /\ PieceSelected("bishop")
  /\ AloneOnBoard
  /\ StrictlyInside
  /\ Len(highlightedMoves) = 13

\* C16: with a queen selected, HighlightedMoves as a set is the union of
\* what the rook rule and the bishop rule yield for a piece of the queen's
\* colour on the same cell; the two are disjoint and the queen's count is
\* the sum of theirs, no coordinate twice.
C16_QueenIsRookPlusBishop ==
  PieceSelected("queen") =>
    LET asRook == RookMoves(board, Occupant(selectedCell), selectedCell)
        asBishop == BishopMoves(board, Occupant(selectedCell), selectedCell)
        rookSet == {asRook[k] : k \in 1..Len(asRook)}
        bishopSet == {asBishop[k] : k \in 1..Len(asBishop)}
    IN /\ HighlightedSet = rookSet \cup bishopSet
       /\ rookSet \cap bishopSet = {}
       /\ Len(highlightedMoves) = Len(asRook) + Len(asBishop)
       /\ Len(highlightedMoves) = Cardinality(HighlightedSet)

\* A queen is selected among other pieces and is offered both orthogonal
\* and diagonal cells.
C16_Witness ==
  /\ PieceSelected("queen")
  /\ ~AloneOnBoard
  /\ \E m \in HighlightedSet :
       m.row = selectedCell.row \/ m.col = selectedCell.col
  /\ \E m \in HighlightedSet :
       m.row # selectedCell.row /\ m.col # selectedCell.col

\* The cells next to the selection, on the board or not.
Adjacent ==
  {Coord(selectedCell.row + dr, selectedCell.col + dc) :
     dr \in {0 - 1, 0, 1}, dc \in {0 - 1, 0, 1}} \ {selectedCell}

\* C17: with a king selected, the entries next to the king are exactly the
\* adjacent cells on the board that are empty or hold the other colour,
\* each once; every other entry is a castling destination, two columns
\* away on the king's row.
C17_KingSingleSteps ==
  PieceSelected("king") =>
    /\ HighlightedSet \cap Adjacent
         = {a \in Adjacent : EmptyCell(a) \/ EnemyCell(a)}
    /\ \A m \in HighlightedSet \ Adjacent :
         /\ m.row = selectedCell.row
         /\ m.col - selectedCell.col \in {0 - 2, 2}
    /\ Len(highlightedMoves) = Cardinality(HighlightedSet)

\* A king is selected and is offered adjacent cells while other adjacent
\* cells are held by its own colour.
C17_Witness ==
  /\ PieceSelected("king")
  /\ HighlightedSet \cap Adjacent # {}
  /\ \E a \in Adjacent : OnBoard(a.row, a.col) /\ a \notin HighlightedSet

----------------------------------------------------------------------------
(* C18 -- C20: the cursor and the idle confirm.                            *)

\* The cursor after a unit step by (dr, dc), or where it is when the step
\* would leave the board.
Clamped(dr, dc) ==
  IF OnBoard(highlightedCell.row + dr, highlightedCell.col + dc)
  THEN Coord(highlightedCell.row + dr, highlightedCell.col + dc)
  ELSE highlightedCell

\* C18: the cursor is always on the board; each of moveUp, moveDown,
\* moveLeft, moveRight changes its one coordinate by exactly 1 when the
\* cursor is not on the corresponding edge and leaves the cursor where it
\* is when it is on that edge.
C18_CursorClamped ==
  /\ [](OnBoard(highlightedCell.row, highlightedCell.col))
  /\ [][/\ (moveUp => highlightedCell' = Clamped(0 - 1, 0))
        /\ (moveDown => highlightedCell' = Clamped(1, 0))
        /\ (moveLeft => highlightedCell' = Clamped(0, 0 - 1))
        /\ (moveRight => highlightedCell' = Clamped(0, 1))
        /\ (lastEvent' = "cursor"
            => (moveUp \/ moveDown \/ moveLeft \/ moveRight))]_vars

\* Arrow keys have taken the cursor to the corner (1,8).
C18_Witness ==
  /\ lastEvent = "cursor"
  /\ highlightedCell = Coord(1, 8)

\* C19: a cursor move changes only the cursor: grid, flags, selection and
\* HighlightedMoves are what they were.
C19_CursorMoveFrame ==
  [][lastEvent' = "cursor"
     => (/\ board' = board
         /\ hasMovedOnce' = hasMovedOnce
         /\ selectedCell' = selectedCell
         /\ highlightedMoves' = highlightedMoves)]_vars

\* The cursor has been moved off the selected cell and the selection with
\* its destinations is still there.
C19_Witness ==
  /\ lastEvent = "cursor"
  /\ Selected
  /\ highlightedCell # selectedCell
  /\ highlightedMoves # <<>>

\* C20: without a selection, return with the cursor on an empty cell
\* changes nothing: no selection, empty HighlightedMoves, same grid, flags
\* and cursor.
C20_IdleConfirmOnEmptyCell ==
  [][(/\ selectedCell = undefined
      /\ lastEvent' \in ConfirmEvents
      /\ Occupant(highlightedCell) = 0)
     => (/\ lastEvent' = "none"
         /\ Idle'
         /\ UNCHANGED <<board, hasMovedOnce, highlightedCell>>)]_vars

\* Return was pressed on an empty cell with nothing selected.
C20_Witness ==
  /\ lastEvent = "none"
  /\ Idle
  /\ Occupant(highlightedCell) = 0

----------------------------------------------------------------------------
(* C21 -- C23: select, deselect and the range of the lookups.              *)

\* C21: without a selection, return with the cursor on an occupied cell
\* selects that cell and sets HighlightedMoves to what highlightMoves yields
\* for its piece on the current grid and flags, nothing else; the grid, the
\* flags and the cursor are unchanged.
C21_IdleConfirmSelects ==
  [][(/\ Idle
      /\ lastEvent' \in ConfirmEvents
      /\ Occupant(highlightedCell) # 0)
     => (/\ lastEvent' = "select"
         /\ selectedCell' = highlightedCell
         /\ highlightedMoves' =
              highlightMoves(board, hasMovedOnce, Occupant(highlightedCell),
                             highlightedCell)
         /\ UNCHANGED <<board, hasMovedOnce, highlightedCell>>)]_vars

\* The first press of return on the initial arrangement selected the piece
\* under the cursor and gave it destinations.
C21_Witness ==
  /\ lastEvent = "select"
  /\ confirmsLeft = MaxConfirms - 1
  /\ selectedCell = highlightedCell
  /\ highlightedMoves # <<>>
  /\ board = arrangeBoard

\* C22: with a selection, return with the cursor on the selected cell
\* deselects: no selection, empty HighlightedMoves, same grid, flags and
\* cursor.  Two presses of return in a row of which the first selects end
\* with the grid, flags and cursor of the start and with nothing selected,
\* which is the very state of the start when that state was idle.
C22_ToggleDeselects ==
  /\ [][(/\ Selected
          /\ highlightedCell = selectedCell
          /\ lastEvent' \in ConfirmEvents)
         => (/\ lastEvent' = "deselect"
             /\ Idle'
             /\ UNCHANGED <<board, hasMovedOnce, highlightedCell>>)]_vars
  /\ [](LET s == selectHighlightedCell(Self)
             t == selectHighlightedCell(s.obj)
         IN s.event = "select"
            => (/\ t.event = "deselect"
                /\ t.obj = [Self EXCEPT !.selectedCell = undefined,
                                         !.highlightedMoves = <<>>]
                /\ (Idle => t.obj = Self)))

\* A piece with destinations was selected and then deselected by a second
\* press of return on its cell.
C22_Witness ==
  /\ lastEvent = "deselect"
  /\ Idle
  /\ Occupant(highlightedCell) # 0
  /\ highlightMoves(board, hasMovedOnce, Occupant(highlightedCell),
                    highlightedCell) # <<>>

\* C23 (as stated): every coordinate handed to the index formula has its
\* row and column in 1..8, so that no lookup leaves the 64 cells or reads a
\* cell of a neighbouring row; in particular the forward cells of a selected
\* pawn and the 8 offsets of a selected knight.
C23_LookupsInRange ==
  (Selected /\ Occupant(selectedCell) # 0)
  => \A c \in UncheckedLookups(Occupant(selectedCell), selectedCell) :
       OnBoard(c.row, c.col)

----------------------------------------------------------------------------
(* C24 -- C26: the initial state, the order of moves, the occupant count.  *)

\* The cells of a grid that hold a piece.
Occupants(b) == {i \in Cells : b[i] # 0}

\* The cells of the grid that hold a piece of one colour.
OccupantsOf(color) ==
  {i \in Cells : board[i] # 0 /\ PieceColor(board[i]) = color}

\* The cell (r, c) holds a piece of that name and colour.
Holds(r, c, name, color) ==
  /\ Occupant(Coord(r, c)) # 0
  /\ PieceName(Occupant(Coord(r, c))) = name
  /\ PieceColor(Occupant(Coord(r, c))) = color

\* C24: before any key the machine is idle with the cursor on (7,5) and
\* empty HighlightedMoves; rows 1 (black) and 8 (white) hold rook, knight,
\* bishop, queen, king, bishop, knight, rook on columns 1..8, rows 2 (black)
\* and 7 (white) hold pawns, rows 3..6 are empty, the 32 pieces are distinct
\* and every hasMovedOnce is false.
C24_InitialState ==
  lastEvent = "start" =>
    LET rank == <<"rook", "knight", "bishop", "queen",
                  "king", "bishop", "knight", "rook">>
    IN /\ Idle
       /\ highlightedCell = Coord(7, 5)
       /\ highlightedMoves = <<>>
       /\ \A c \in 1..8 :
            /\ Holds(1, c, rank[c], "black")
            /\ Holds(2, c, "pawn", "black")
            /\ Holds(7, c, "pawn", "white")
            /\ Holds(8, c, rank[c], "white")
            /\ \A r \in 3..6 : Occupant(Coord(r, c)) = 0
       /\ Cardinality({board[i] : i \in Occupants(board)}) = 32
       /\ \A p \in Pieces : ~hasMovedOnce[p]

\* No key has been pressed: the cursor is on the pawn in front of the white
\* king.
C24_Witness ==
  /\ lastEvent = "start"
  /\ Holds(highlightedCell.row, highlightedCell.col, "pawn", "white")
  /\ Holds(highlightedCell.row + 1, highlightedCell.col, "king", "white")

\* C25: there is no turn order.  Without a selection, return on an occupied
\* cell selects its piece whatever its colour; and right after an accepted
\* move, return selects the piece that has just moved and then every
\* destination it is offered on the board is accepted: a second move of the
\* same colour with no move of the other colour in between.
C25_NoTurnOrder ==
  LET s == selectHighlightedCell(Self)
  IN /\ (Idle /\ Occupant(highlightedCell) # 0)
          => (s.event = "select" /\ s.obj.selectedCell = highlightedCell)
     /\ lastEvent = "accepted"
          => \A k \in 1..Len(s.obj.highlightedMoves) :
               LET to == s.obj.highlightedMoves[k]
                   m == selectHighlightedCell(CursorTo(s.obj, to.row, to.col))
               IN OnBoard(to.row, to.col)
                  => (/\ m.event = "accepted"
                      /\ At(m.obj.board, IndexOf(to))
                           = Occupant(highlightedCell))

\* Two white pieces have made an accepted move, the second just now, and no
\* black piece has moved.
C25_Witness ==
  /\ lastEvent = "accepted"
  /\ Cardinality({p \in Pieces : hasMovedOnce[p]}) = 2
  /\ \A p \in Pieces : hasMovedOnce[p] => PieceColor(p) = "white"
  /\ \A i \in 0..15 : board[i] = arrangeBoard[i]

\* C26: only an accepted move changes the grid.  An accepted move onto an
\* occupied cell leaves one piece fewer and the piece that stood there is on
\* no cell afterwards; an accepted move onto an empty cell, castling
\* included, leaves the number of pieces unchanged.  No piece is on two
\* cells, and each colour has at most 16 pieces and at most one king
\* (stated of the grids before any key and after each accepted move, which
\* by the first part are all the grids there are).
C26_CaptureRemovesOne ==
  /\ [][board' = board
        \/ (/\ lastEvent' = "accepted"
            /\ Cardinality(Occupants(board')) =
                 Cardinality(Occupants(board))
                 - (IF Occupant(highlightedCell) # 0 THEN 1 ELSE 0)
            /\ Occupant(highlightedCell) # 0
                 => \A i \in Cells : board'[i] # Occupant(highlightedCell))]_vars
  /\ [](lastEvent \in {"start", "accepted"}
         => (/\ Cardinality({board[i] : i \in Occupants(board)})
                  = Cardinality(Occupants(board))
             /\ \A color \in {"black", "white"} :
                  /\ Cardinality(OccupantsOf(color)) <= 16
                  /\ Cardinality({i \in OccupantsOf(color) :
                                    PieceName(board[i]) = "king"}) <= 1))

\* A capture has just been accepted: 31 pieces are left.
C26_Witness ==
  /\ lastEvent = "accepted"
  /\ Cardinality(Occupants(board)) = 31

----------------------------------------------------------------------------
(* C27 -- C30: invariants of the selection and of HighlightedMoves.        *)

\* The grid `b` holds 0 or a piece on each of its 64 cells, so that every
\* read of a cell by a handler finds a value it can work with.
GridDefined(b) == \A i \in Cells : b[i] = 0 \/ b[i] \in Pieces

\* C27: in every state each arrow key can be handled, and so can return:
\* the cursor is on the board, the grid is defined on its 64 cells,
\* selectHighlightedCell ends in one of its branches, leaves the cursor
\* where it is and the grid defined.  With a selection, the selected cell is
\* on the board, and the cursor taken there followed by return leaves
\* nothing selected and HighlightedMoves empty.
C27_NoTerminalState ==
  /\ ENABLED moveUp
  /\ ENABLED moveDown
  /\ ENABLED moveLeft
  /\ ENABLED moveRight
  /\ OnBoard(highlightedCell.row, highlightedCell.col)
  /\ GridDefined(board)
  /\ LET r == selectHighlightedCell(Self)
         b == r.obj.board
     IN /\ r.event \in ConfirmEvents
        /\ r.obj.highlightedCell = highlightedCell
        /\ (b = board \/ GridDefined(b))
  /\ Selected =>
       /\ OnBoard(selectedCell.row, selectedCell.col)
       /\ LET back == selectHighlightedCell(
                        CursorTo(Self, selectedCell.row, selectedCell.col))
          IN /\ back.event = "deselect"
             /\ back.obj.selectedCell = undefined
             /\ back.obj.highlightedMoves = <<>>

\* A piece without destinations is selected and the cursor is on another
\* cell: return would attempt no move, yet the way back through the
\* selected cell is open.
C27_Witness ==
  /\ Selected
  /\ highlightedMoves = <<>>
  /\ highlightedCell # selectedCell
  /\ lastEvent = "cursor"

\* C28: a selection is always a cell of the board that holds a piece; every
\* step that changes the grid leaves nothing selected.
C28_SelectionOnOccupiedCell ==
  /\ [](Selected
         => (/\ OnBoard(selectedCell.row, selectedCell.col)
             /\ At(board, IndexOf(selectedCell)) \in Pieces))
  /\ [][board' # board => selectedCell' = undefined]_vars

\* A piece has been selected on a grid that an earlier move has changed.
C28_Witness ==
  /\ lastEvent = "select"
  /\ Selected
  /\ board # arrangeBoard
  /\ Occupant(selectedCell) # 0

\* C29: HighlightedMoves is non-empty only with a selection, and with a
\* selection it is what highlightMoves yields for the piece on the selected
\* cell on the grid and flags as they are now.
C29_HighlightedMovesCurrent ==
  [](/\ highlightedMoves # <<>> => Selected
     /\ Selected =>
          /\ At(board, IndexOf(selectedCell)) \in Pieces
          /\ highlightedMoves =
               highlightMoves(board, hasMovedOnce, Occupant(selectedCell),
                              selectedCell))

\* A king that may castle is selected on a grid changed by earlier moves,
\* and the cursor has since been moved onto one of its destinations.
C29_Witness ==
  /\ lastEvent = "cursor"
  /\ KingSelected
  /\ board # arrangeBoard
  /\ Coord(selectedCell.row, selectedCell.col + 2) \in HighlightedSet
  /\ highlightedCell \in HighlightedSet

\* The pieces of one colour on a grid.
PiecesOf(b, color) ==
  {b[i] : i \in {j \in Cells : b[j] # 0 /\ PieceColor(b[j]) = color}}

\* C30: every entry of HighlightedMoves on the board is an empty cell or a
\* cell held by the other colour; a castling entry and the cell between it
\* and the king are empty; an accepted move lands on such a cell and every
\* piece of the mover's colour is still on the grid afterwards.
C30_NeverOverwritesOwnColour ==
  /\ []((Selected /\ Occupant(selectedCell) # 0)
         => (/\ \A m \in HighlightedSet :
                  OnBoard(m.row, m.col) => (EmptyCell(m) \/ EnemyCell(m))
             /\ PieceName(Occupant(selectedCell)) = "king"
                  => \A dc \in {0 - 1, 1} :
                       Coord(selectedCell.row, selectedCell.col + 2 * dc)
                         \in HighlightedSet
                       => (/\ EmptyCell(Coord(selectedCell.row,
                                               selectedCell.col + 2 * dc))
                           /\ EmptyCell(Coord(selectedCell.row,
                                               selectedCell.col + dc)))))
  /\ [][lastEvent' = "accepted"
        => LET color == PieceColor(Occupant(selectedCell))
           IN /\ (Occupant(highlightedCell) = 0
                   \/ PieceColor(Occupant(highlightedCell)) # color)
              /\ PiecesOf(board', color) = PiecesOf(board, color)]_vars

\* A king is selected and is offered castling to the right, while a cell
\* next to it holds a piece of its own colour and is not offered.
C30_Witness ==
  /\ KingSelected
  /\ Coord(selectedCell.row, selectedCell.col + 2) \in HighlightedSet
  /\ \E a \in Adjacent :
       /\ OnBoard(a.row, a.col)
       /\ Occupant(a) # 0
       /\ PieceColor(Occupant(a)) = PieceColor(Occupant(selectedCell))
       /\ a \notin HighlightedSet

----------------------------------------------------------------------------
(* C31 -- C32: the castling companion and the cells move() writes.         *)

\* The four rooks, and the row on which arrangeBoard puts a piece's colour.
Rooks == {p \in Pieces : PieceName(p) = "rook"}

HomeRank(p) == IF PieceColor(p) = "white" THEN 8 ELSE 1

\* The row of the cell with index i.
RowOf(i) == (i \div 8) + 1

\* C31: with a king selected, a castling destination is offered only when
\* the first non-empty cell in that direction holds a rook of the king's
\* colour; an accepted move of a king by two columns puts a rook of the
\* king's colour on the cell the king passed over.  (After every change of
\* the grid, a rook whose flag is false stands on the back rank of its own
\* colour.)
C31_CastlingRookSameColour ==
  /\ [](KingSelected
         => \A dc \in {0 - 1, 1} :
              Coord(selectedCell.row, selectedCell.col + 2 * dc)
                \in HighlightedSet
              => LET c == FirstOccupied(selectedCell.row, selectedCell.col, dc)
                     found == Occupant(Coord(selectedCell.row, c))
                 IN /\ c # 0
                    /\ PieceName(found) = "rook"
                    /\ PieceColor(found) = PieceColor(Occupant(selectedCell)))
  /\ [](lastEvent \in {"start", "accepted"}
         => \A i \in Cells :
              (board[i] \in Rooks /\ ~hasMovedOnce[board[i]])
              => RowOf(i) = HomeRank(board[i]))
  /\ [][(/\ lastEvent' = "accepted"
          /\ KingSelected
          /\ selectedCell.col - highlightedCell.col \in {0 - 2, 2})
         => LET dc == IF highlightedCell.col > selectedCell.col
                      THEN 1 ELSE 0 - 1
                companion == board'[IndexOf(Coord(highlightedCell.row,
                                                  highlightedCell.col - dc))]
            IN /\ companion \in Rooks
               /\ PieceColor(companion) = PieceColor(Occupant(selectedCell))
               /\ \A i \in Cells : board[i] = companion
                    => (RowOf(i) = selectedCell.row
                        /\ board'[i] = 0)]_vars

\* A king has just castled to the right: it stands on column 7 under the
\* cursor with a rook of its own colour on column 6 and an empty corner.
C31_Witness ==
  /\ lastEvent = "accepted"
  /\ highlightedCell.col = 7
  /\ Occupant(highlightedCell) # 0
  /\ PieceName(Occupant(highlightedCell)) = "king"
  /\ Occupant(Coord(highlightedCell.row, 6)) \in Rooks
  /\ PieceColor(Occupant(Coord(highlightedCell.row, 6)))
       = PieceColor(Occupant(highlightedCell))
  /\ Occupant(Coord(highlightedCell.row, 8)) = 0

\* C32: a coordinate of HighlightedMoves outside the board is never the
\* cursor; an accepted move has its destination on the board, every index
\* move() assigns is one of the 64 cells, on the row of the destination or
\* of the origin (the castling indices on the king's row), no other slot of
\* the grid changes and the slots outside the 64 cells stay undefined.
C32_WritesInRange ==
  /\ [](\A m \in HighlightedSet :
           ~OnBoard(m.row, m.col) => highlightedCell # m)
  /\ [][lastEvent' = "accepted"
        => LET from == selectedCell
               to == highlightedCell
               writes == MoveWrites(board, from, to)
           IN /\ OnBoard(to.row, to.col)
              /\ OnBoard(from.row, from.col)
              /\ \A i \in writes :
                   /\ i \in Cells
                   /\ RowOf(i) \in {from.row, to.row}
                   /\ isCastling(board, from, to) => RowOf(i) = from.row
              /\ \A i \in Slots :
                   /\ board'[i] # board[i] => i \in writes
                   /\ i \notin Cells => board'[i] = undefinedCell]_vars

\* The first move of the game has just been made by the white knight of
\* (8,2), whose HighlightedMoves held the coordinate (7,0) beside (6,1) and
\* (6,3).
C32_Witness ==
  /\ lastEvent = "accepted"
  /\ Occupant(Coord(8, 2)) = 0
  /\ Occupant(highlightedCell) = arrangeBoard[IndexOf(Coord(8, 2))]
  /\ {p \in Pieces : hasMovedOnce[p]} = {Occupant(highlightedCell)}
  /\ KnightMoves(arrangeBoard, Occupant(highlightedCell), Coord(8, 2))
       = <<Coord(6, 1), Coord(6, 3), Coord(7, 0)>>

----------------------------------------------------------------------------
(* C33 -- C34: a selection without destinations; the king's flag.          *)

\* C33: with a selection and empty HighlightedMoves, return with the cursor
\* on another cell attempts no move and leaves the grid, the flags and the
\* cursor as they are: on an occupied cell the selection becomes the
\* cursor's cell and HighlightedMoves what highlightMoves yields for its
\* piece, on an empty cell the selection and HighlightedMoves stay.
C33_BlockedSelectionConfirm ==
  [][(/\ Selected
      /\ highlightedMoves = <<>>
      /\ highlightedCell # selectedCell
      /\ lastEvent' \in ConfirmEvents)
     => (/\ UNCHANGED <<board, hasMovedOnce, highlightedCell>>
         /\ lastEvent' \notin {"accepted", "rejected"}
         /\ IF Occupant(highlightedCell) # 0
            THEN /\ lastEvent' = "select"
                 /\ selectedCell' = highlightedCell
                 /\ highlightedMoves' =
                      highlightMoves(board, hasMovedOnce,
                                     Occupant(highlightedCell),
                                     highlightedCell)
            ELSE /\ lastEvent' = "none"
                 /\ UNCHANGED <<selectedCell, highlightedMoves>>)]_vars

\* Return was pressed on an empty cell while a piece without destinations
\* was selected elsewhere, and the selection is still there.
C33_Witness ==
  /\ lastEvent = "none"
  /\ Selected
  /\ highlightedMoves = <<>>
  /\ Occupant(highlightedCell) = 0
  /\ Occupant(selectedCell) # 0

\* C34: a selected king whose flag is true is offered adjacent cells only.
\* An accepted move of a king sets its flag and no flag is ever reset; an
\* accepted move of a king by two columns is made by a king whose flag was
\* false, stays on its row and brings a rook onto the cell passed over,
\* which was empty.  Hence a king castles at most once.
C34_KingCastlesOnce ==
  /\ []((KingSelected /\ hasMovedOnce[Occupant(selectedCell)])
         => \A m \in HighlightedSet : m \in Adjacent)
  /\ [][/\ \A p \in Pieces : hasMovedOnce[p] => hasMovedOnce'[p]
        /\ (lastEvent' = "accepted" /\ KingSelected)
           => (/\ hasMovedOnce'[Occupant(selectedCell)]
               /\ selectedCell.col - highlightedCell.col \in {0 - 2, 2}
                  => LET passed ==
                           Coord(selectedCell.row,
                                 (selectedCell.col + highlightedCell.col)
                                   \div 2)
                     IN /\ ~hasMovedOnce[Occupant(selectedCell)]
                        /\ highlightedCell.row = selectedCell.row
                        /\ Occupant(passed) = 0
                        /\ board'[IndexOf(passed)] \in Rooks)]_vars

\* A king that moved away and came back to its initial cell is selected:
\* the first non-empty cell to its right is a rook whose flag is false, its
\* own flag is true, and it is offered adjacent cells only.
C34_Witness ==
  /\ KingSelected
  /\ hasMovedOnce[Occupant(selectedCell)]
  /\ selectedCell.col = 5
  /\ selectedCell.row = HomeRank(Occupant(selectedCell))
  /\ UnmovedRookAhead(selectedCell.row, selectedCell.col, 1)
  /\ highlightedMoves # <<>>
  /\ Coord(selectedCell.row, selectedCell.col + 2) \notin HighlightedSet

----------------------------------------------------------------------------
(* Pawns far from home.  SpecPawn explores the handlers from the positions *)
(* met while a white and a black pawn are marched to their far ranks.      *)

\* The white a-pawn goes two steps, then one step twice, captures the black
\* b-pawn on (2,2) and the bishop on (1,3); the black h-pawn goes two
\* steps, then one step twice, captures the white g-pawn on (7,7) and the
\* bishop on (8,6).
PawnMarch ==
  <<<<7, 1, 5, 1>>, <<5, 1, 4, 1>>, <<4, 1, 3, 1>>, <<3, 1, 2, 2>>,
    <<2, 2, 1, 3>>, <<2, 8, 4, 8>>, <<4, 8, 5, 8>>, <<5, 8, 6, 8>>,
    <<6, 8, 7, 7>>, <<7, 7, 8, 6>>>>

\* The state after any number of the scripted moves.
InitPawn ==
  /\ \E n \in 0..Len(PawnMarch) :
       LET o == Replay(NewBoard, SubSeq(PawnMarch, 1, n))
       IN /\ board = o.board
          /\ hasMovedOnce = o.hasMovedOnce
          /\ highlightedCell = o.highlightedCell
          /\ selectedCell = o.selectedCell
          /\ highlightedMoves = o.highlightedMoves
  /\ lastEvent = "start"
  /\ confirmsLeft = MaxPawnConfirms

SpecPawn == InitPawn /\ [][Next]_vars

----------------------------------------------------------------------------
(* C35 -- C36: pawns and their flag; the state after an accepted move.     *)

Pawns == {p \in Pieces : PieceName(p) = "pawn"}

\* The rows on which a pawn of that piece's colour starts and ends.
StartRank(p) == IF PieceColor(p) = "white" THEN 7 ELSE 2

FarRank(p) == IF PieceColor(p) = "white" THEN 1 ELSE 8

\* C35: a pawn whose flag is false stands on the starting rank of its
\* colour; every entry of the HighlightedMoves of a selected pawn is on the
\* board; a selected pawn on its far rank has empty HighlightedMoves.
C35_PawnRanks ==
  /\ \A i \in Cells :
       (board[i] \in Pawns /\ ~hasMovedOnce[board[i]])
       => RowOf(i) = StartRank(board[i])
  /\ PawnSelected =>
       /\ \A m \in HighlightedSet : OnBoard(m.row, m.col)
       /\ selectedCell.row = FarRank(Occupant(selectedCell))
          => highlightedMoves = <<>>

\* The white pawn that reached row 1 has just been selected and is offered
\* nothing.
C35_Witness ==
  /\ lastEvent = "select"
  /\ PawnSelected
  /\ PieceColor(Occupant(selectedCell)) = "white"
  /\ selectedCell.row = 1
  /\ hasMovedOnce[Occupant(selectedCell)]
  /\ highlightedMoves = <<>>

\* C36: an accepted move leaves the cursor where it is, on the cell that
\* now holds the piece moved from the selected cell.  Right after an
\* accepted move nothing is selected, HighlightedMoves is empty and the
\* flag of the piece under the cursor is true; return pressed next selects
\* the cursor's cell and gives HighlightedMoves what highlightMoves yields
\* for that piece there with its flag set: no entry two cells away for a
\* pawn or a king.
C36_CursorOnMovedPiece ==
  /\ [][lastEvent' = "accepted"
        => (/\ highlightedCell' = highlightedCell
            /\ Occupant(selectedCell) # 0
            /\ board'[IndexOf(highlightedCell)] = Occupant(selectedCell))]_vars
  /\ [](lastEvent = "accepted"
         => (/\ Idle
             /\ Occupant(highlightedCell) # 0
             /\ hasMovedOnce[Occupant(highlightedCell)]))
  /\ [][(lastEvent = "accepted" /\ lastEvent' \in ConfirmEvents)
        => (/\ lastEvent' = "select"
            /\ UNCHANGED <<board, hasMovedOnce, highlightedCell>>
            /\ selectedCell' = highlightedCell
            /\ highlightedMoves' =
                 highlightMoves(board, [hasMovedOnce EXCEPT
                                          ![Occupant(highlightedCell)] = TRUE],
                                Occupant(highlightedCell), highlightedCell)
            /\ PieceName(Occupant(highlightedCell)) \in {"pawn", "king"}
               => \A k \in 1..Len(highlightedMoves') :
                    /\ highlightedMoves'[k].row - highlightedCell.row
                         \in {0 - 1, 0, 1}
                    /\ highlightedMoves'[k].col - highlightedCell.col
                         \in {0 - 1, 0, 1})]_vars

\* A white pawn went two steps as the first move of the game and has been
\* selected again on row 5: it is offered the one cell ahead and nothing
\* else.
C36_Witness ==
  /\ lastEvent = "select"
  /\ PawnSelected
  /\ selectedCell = highlightedCell
  /\ selectedCell.row = 5
  /\ PieceColor(Occupant(selectedCell)) = "white"
  /\ {p \in Pieces : hasMovedOnce[p]} = {Occupant(selectedCell)}
  /\ highlightedMoves = <<Ahead(1)>>

====
